---- MODULE Spec2Model ----
(***************************************************************************)
(* Test-execution lifecycle of the OrangeHRM Playwright framework:         *)
(*   - globalSetup    (src/src/setup/global-setup.ts, two revisions)       *)
(*   - globalTeardown (src/unnamed/part_004, two revisions)                *)
(*   - validateEnvironment / ConfigManager.validateConfiguration           *)
(*   - ApiHelper.waitForEndpoint (src/unnamed/part_002)                    *)
(*   - generatePerformanceSummary (src/unnamed/part_004, two revisions)    *)
(*   - processTestArtifacts / organizeArtifacts (src/unnamed/part_004,     *)
(*     two revisions), after cleanPreviousArtifacts and a test run         *)
(*   - TestUtils.retryWithBackoff (src/src/setup/global-setup.ts)          *)
(*   - ConfigManager get / set / clearOverrides / loadConfigFromFile       *)
(*   - ApiHelper init / dispose / request methods (src/unnamed/part_002)   *)
(* A behaviour is one invocation of one of these entry points, or a        *)
(* sequence of calls on one ConfigManager or ApiHelper instance.  The      *)
(* inputs of the invocation (which file-system, browser or process         *)
(* operations fail, the environment that is validated) are fixed in the    *)
(* initial state or chosen when the operation settles; the actions are     *)
(* the steps of the invocation.                                            *)
(***************************************************************************)
EXTENDS Integers, Sequences, FiniteSets, TLC

VARIABLES
    scenario,       \* the entry point invoked: "setup" | "teardown" | "validate" |
                    \* "probe" | "performance" | "artifacts" | "retry" |
                    \* "config" | "api"
    variant,        \* 1 | 2: which revision of the entry point
    opFails,        \* input: the awaited operations <<phase, operation>> that fail
    escapeAt,       \* input: teardown phase that raises past its own try/catch
    cleanupFails,   \* input: an operation inside the fallback cleanup fails
    env,            \* input: the environment / configuration that is validated
    validator,      \* input: which validation routine the validate scenario runs
    probeTimeout,   \* input: the `timeout` argument of waitForEndpoint (ms)
    probeInterval,  \* input: the `interval` argument of waitForEndpoint (ms)
    apiReady,       \* input: ApiHelper.init() has created the request context
    probeLatency,   \* input: time the endpoint takes to answer one request (ms)
    logExists,      \* input: logs/test-execution.log can be read
    log,            \* input: the lines of logs/test-execution.log
    sourceFiles,    \* input: the listing of the artifact source directory
    copyFails,      \* input: the files for which fs.copyFile rejects
    unreadable,     \* input: the artifact kinds whose source directory cannot be read
    staleRun,       \* input: an earlier run has left a screenshot behind
    priorFiles,     \* input: the files an earlier setup run persisted exist
    maxRetries,     \* input: the attempts retryWithBackoff may make
    baseDelay,      \* input: the delay after the first failed attempt
    fnOutcomes,     \* input: how the k-th invocation of fn settles
    pc,             \* position of the invocation
    started,        \* sequence of phases invoked so far
    running,        \* phases invoked and not yet settled
    finished,       \* phases that returned normally
    ledger,         \* per-phase terminal records (the phase's last log record)
    caught,         \* error held by the catch block of globalSetup
    cleanupCalls,   \* number of invocations of emergencyCleanup / basicCleanup
    cleanupDone,    \* number of those invocations that have returned
    outcome,        \* "pending" | "returned" | "threw": what the caller observes
    thrown,         \* the error the caller receives
    overallStatus,  \* "none" | "Succeeded" | "Failed": the final log record
    errors,         \* messages produced by the validation routine
    now,            \* Date.now(), in ms
    polls,          \* the requests waitForEndpoint has issued, with their answers
    result,         \* the value returned to the caller
    remaining,      \* files of the listing organizeArtifacts has not visited yet
    target,         \* the files <<kind, name>> in the directories test-artifacts/<kind>
    source,         \* the files <<kind, name>> in the source directories <kind>
    kindIndex,      \* index of the artifact kind processTestArtifacts is organizing
    runs,           \* number of the current invocation of processTestArtifacts
    firstTarget,    \* the target directories as the first invocation left them
    organized,      \* the kinds for which organizeArtifacts has been invoked
    openBrowsers,   \* the setup phases whose launched browser is still open
    files,          \* the persisted files of setup that exist
    attempt,        \* the loop counter of retryWithBackoff
    invocations,    \* the attempts in which fn has been invoked
    waits,          \* the delays retryWithBackoff has waited, in order
    lastError,      \* the error kept from the latest failed attempt
    rejection,      \* the value a utility's promise is rejected with
    config,         \* ConfigManager: the environment of the held configuration
    environmentOverrides, \* ConfigManager: the overrides, by key
    context,        \* ApiHelper: the request context, "null" or "open"
    sent,           \* the requests that have reached the transport
    heldBefore,     \* the configuration held when the latest call was made
    calls           \* the calls made on the utility object, in order

vars == <<scenario, variant, opFails, escapeAt, cleanupFails, env, validator,
          probeTimeout, probeInterval, apiReady, probeLatency, logExists, log,
          sourceFiles, copyFails, unreadable, staleRun,
          priorFiles, maxRetries, baseDelay, fnOutcomes,
          pc, started, running, finished, ledger, caught, cleanupCalls,
          cleanupDone, outcome, thrown, overallStatus, errors,
          now, polls, result, remaining, target, source, kindIndex, runs,
          firstTarget, organized,
          openBrowsers, files,
          attempt, invocations, waits, lastError, rejection,
          config, environmentOverrides, heldBefore, calls, context, sent>>

inputs == <<scenario, variant, opFails, escapeAt, cleanupFails, env, validator,
            probeTimeout, probeInterval, apiReady, probeLatency, logExists, log,
            sourceFiles, copyFails, unreadable, staleRun,
            priorFiles, maxRetries, baseDelay, fnOutcomes>>

\* the state of the lifecycle entry points (setup, teardown, validation)
\* what a setup run leaves outside the process
setupEffects == <<openBrowsers, files>>

lifecycleVars == <<started, running, finished, ledger, caught, cleanupCalls,
                   cleanupDone, thrown, overallStatus, errors, setupEffects>>

\* the state of processTestArtifacts
artifactVars == <<remaining, target, source, kindIndex, runs, firstTarget, organized>>

\* the state of retryWithBackoff
retryVars == <<attempt, invocations, waits, lastError>>

\* the state of the ConfigManager instance
configVars == <<config, environmentOverrides, heldBefore>>

\* the state of the utility classes
\* the state of the ApiHelper instance
apiVars == <<context, sent>>

utilityVars == <<retryVars, rejection, configVars, calls, apiVars>>

\* the state of the other components
componentVars == <<now, polls, result, artifactVars, utilityVars>>

NoPhase == "none"
NoError == "none"

(***************************************************************************)
(* Environment values.  A URL-valued key is unset/empty (""), set to text  *)
(* that `new URL` rejects ("bad") or set to a well-formed URL ("ok").  A   *)
(* numeric key is unset, or holds text that parseInt reads as n, or text   *)
(* that parseInt reads as NaN.                                             *)
(***************************************************************************)
Unset == [kind |-> "unset", n |-> 0]
NaNValue == [kind |-> "nan", n |-> 0]
Num(n) == [kind |-> "num", n |-> n]

MinTimeout == 1000
MinApiTimeout == 1000
MinWorkers == 1
MinViewportWidth == 320
MinViewportHeight == 240

UrlInputs == {"", "bad", "ok"}
TextInputs == {"", "ok"}
NumInputs(min) == {Unset, Num(-1), Num(0), Num(min - 1), Num(min)}

ValidEnv ==
    [BASE_URL |-> "ok", API_BASE_URL |-> "ok", USERNAME |-> "ok", PASSWORD |-> "ok",
     TIMEOUT |-> Num(MinTimeout), API_TIMEOUT |-> Unset, WORKERS |-> Num(MinWorkers),
     VIEWPORT_WIDTH |-> Unset, VIEWPORT_HEIGHT |-> Unset]

Envs ==
    [BASE_URL : UrlInputs, API_BASE_URL : UrlInputs,
     USERNAME : TextInputs, PASSWORD : TextInputs,
     TIMEOUT : NumInputs(MinTimeout), API_TIMEOUT : {Unset, Num(MinApiTimeout - 1)},
     WORKERS : NumInputs(MinWorkers),
     VIEWPORT_WIDTH : NumInputs(MinViewportWidth),
     VIEWPORT_HEIGHT : {Unset, Num(MinViewportHeight - 1), Num(MinViewportHeight)}]

\* environments a setup run is started with
SetupEnvs ==
    {ValidEnv,
     [ValidEnv EXCEPT !.USERNAME = ""],
     [ValidEnv EXCEPT !.API_BASE_URL = "bad"],
     [ValidEnv EXCEPT !.TIMEOUT = Num(MinTimeout - 1)]}

isValidUrl(url) == url = "ok"

RequiredKeys == <<"BASE_URL", "API_BASE_URL", "USERNAME", "PASSWORD">>
UrlKeys == <<"BASE_URL", "API_BASE_URL">>

NumericVars ==
    <<[name |-> "TIMEOUT", min |-> MinTimeout],
      [name |-> "API_TIMEOUT", min |-> MinApiTimeout],
      [name |-> "WORKERS", min |-> MinWorkers],
      [name |-> "VIEWPORT_WIDTH", min |-> MinViewportWidth],
      [name |-> "VIEWPORT_HEIGHT", min |-> MinViewportHeight]>>

Message(kind, keys) == [kind |-> kind, keys |-> keys]

\* `if (numVar.value)` on the text of the variable, then parseInt / isNaN / `<`
envNumericInvalid(value, min) ==
    /\ value.kind # "unset"
    /\ (value.kind = "nan" \/ value.n < min)

(***************************************************************************)
(* validateEnvironment of globalSetup.  It returns nothing and reports by   *)
(* throwing; the result modelled here is the sequence of messages the       *)
(* thrown error carries (empty when validation passes).                     *)
(***************************************************************************)
validateEnvironment(e, v) ==
    LET missingVars == SelectSeq(RequiredKeys, LAMBDA k : e[k] = "")
        badUrls == SelectSeq(UrlKeys, LAMBDA k : e[k] # "" /\ ~isValidUrl(e[k]))
        badNums == SelectSeq(NumericVars,
                             LAMBDA nv : envNumericInvalid(e[nv.name], nv.min))
    IN  IF missingVars # <<>> THEN <<Message("missing", missingVars)>>
        ELSE IF badUrls # <<>> THEN <<Message("url", <<Head(badUrls)>>)>>
        ELSE IF v = 1 /\ badNums # <<>>
             THEN <<Message("numeric", <<Head(badNums).name>>)>>
        ELSE <<>>

\* truthiness of a number held by the configuration object
numberTruthy(value) == value.kind = "num" /\ value.n # 0

\* `a < m` on a configuration number: false for undefined and NaN
numberBelow(value, m) == value.kind = "num" /\ value.n < m

(***************************************************************************)
(* ConfigManager.validateConfiguration: collects the messages in `errors`   *)
(* and throws one error that carries all of them.                           *)
(***************************************************************************)
validateConfiguration(c) ==
    LET missingKeys == SelectSeq(RequiredKeys, LAMBDA k : c[k] = "")
        missing == [i \in 1..Len(missingKeys) |-> Message("missing", <<missingKeys[i]>>)]
        badUrls == SelectSeq(UrlKeys, LAMBDA k : c[k] # "" /\ ~isValidUrl(c[k]))
        urls == [i \in 1..Len(badUrls) |-> Message("url", <<badUrls[i]>>)]
        timeout == IF numberTruthy(c.TIMEOUT) /\ numberBelow(c.TIMEOUT, MinTimeout)
                   THEN <<Message("numeric", <<"TIMEOUT">>)>> ELSE <<>>
        workers == IF numberTruthy(c.WORKERS) /\ numberBelow(c.WORKERS, MinWorkers)
                   THEN <<Message("numeric", <<"WORKERS">>)>> ELSE <<>>
        viewport == IF \/ numberBelow(c.VIEWPORT_WIDTH, MinViewportWidth)
                       \/ numberBelow(c.VIEWPORT_HEIGHT, MinViewportHeight)
                    THEN <<Message("numeric", <<"VIEWPORT_WIDTH", "VIEWPORT_HEIGHT">>)>>
                    ELSE <<>>
    IN  missing \o urls \o timeout \o workers \o viewport

(***************************************************************************)
(* globalSetup                                                             *)
(***************************************************************************)
SetupPhases(v) ==
    IF v = 1
    THEN <<"createDirectories", "validateEnvironment", "setupBrowsers",
           "verifyTestSiteAvailability", "verifyApplicationEndpoints",
           "cleanPreviousArtifacts", "setupPerformanceMonitoring",
           "setupTestEnvironmentInfo">>
    ELSE <<"createDirectories", "validateEnvironment", "setupBrowsers",
           "verifyTestSiteAvailability", "setupAuthentication",
           "initializeTestData", "cleanPreviousArtifacts",
           "setupPerformanceMonitoring">>

Range(s) == {s[i] : i \in 1..Len(s)}

\* the awaited operations of the setup phases that can fail, by phase:
\*   mkdir, readdir, unlink, fs (mkdir/writeFile)  file-system calls
\*   browser   launch / newContext / newPage / goto / close, ApiHelper.init
\*   goto      the per-endpoint navigation of verifyApplicationEndpoints
\*   apiCheck  the per-endpoint apiHelper.get of verifyTestSiteAvailability
\*   waitForURL  the wait for the dashboard URL of setupAuthentication
SetupOps(v) ==
    IF v = 1
    THEN {<<"createDirectories", "mkdir">>,
          <<"setupBrowsers", "browser">>,
          <<"verifyTestSiteAvailability", "browser">>,
          <<"verifyApplicationEndpoints", "browser">>,
          <<"verifyApplicationEndpoints", "goto">>,
          <<"cleanPreviousArtifacts", "readdir">>,
          <<"cleanPreviousArtifacts", "unlink">>,
          <<"setupPerformanceMonitoring", "fs">>,
          <<"setupTestEnvironmentInfo", "fs">>}
    ELSE {<<"createDirectories", "mkdir">>,
          <<"setupBrowsers", "browser">>,
          <<"verifyTestSiteAvailability", "browser">>,
          <<"verifyTestSiteAvailability", "apiCheck">>,
          <<"setupAuthentication", "browser">>,
          <<"setupAuthentication", "waitForURL">>,
          <<"initializeTestData", "fs">>,
          <<"cleanPreviousArtifacts", "readdir">>,
          <<"cleanPreviousArtifacts", "unlink">>,
          <<"setupPerformanceMonitoring", "fs">>}

\* variant of swallowsErrors: no operation has a handler of its own
swallowsErrors_none(p, op) == FALSE

\* operations whose error is caught inside the phase, which then goes on:
\* createDirectories catches each mkdir (warn), cleanPreviousArtifacts
\* catches readdir (.catch(() => [])) and unlink (warn),
\* verifyTestSiteAvailability catches each apiHelper.get (warn),
\* setupAuthentication falls back to a selector wait when waitForURL fails.
\* The goto of verifyApplicationEndpoints is caught too, but the endpoint is
\* then recorded inaccessible and the phase throws.
swallowsErrors(p, op) ==
    \/ p = "createDirectories" /\ op = "mkdir"
    \/ p = "cleanPreviousArtifacts" /\ op \in {"readdir", "unlink"}
    \/ p = "verifyTestSiteAvailability" /\ op = "apiCheck"
    \/ p = "setupAuthentication" /\ op = "waitForURL"

\* the operations of phase p that fail in this run
failingOps(p, fails) == {o \in fails : o[1] = p}

\* an error occurs inside phase p of a setup run
setupPhaseFails(p, fails, e, v) ==
    IF p = "validateEnvironment" THEN validateEnvironment(e, v) # <<>>
    ELSE failingOps(p, fails) # {}

\* phase p rejects: the error leaves the phase and reaches globalSetup
setupPhaseThrows(p, fails, e, v) ==
    IF p = "validateEnvironment" THEN validateEnvironment(e, v) # <<>>
    ELSE \E o \in failingOps(p, fails) : ~swallowsErrors(o[1], o[2])

\* variant of awaitSettled: the phase promise is not awaited
awaitSettled_noAwait(inFlight) == TRUE

\* `await`: the next statement runs once the awaited phase has settled
awaitSettled(inFlight) == inFlight = {}

\* variant of setupAfterPhase: the rejection is caught per phase and the run goes on
setupAfterPhase_continue(threw) == "run"

\* a rejected await inside `try` transfers control to the catch block
setupAfterPhase(threw) == IF threw THEN "catch" ELSE "run"

\* variant of recordPhase: a failing phase leaves no record
recordPhase_dropFailed(l, p, status) ==
    IF status = "Failed" THEN l ELSE Append(l, [name |-> p, status |-> status])

\* the terminal record a phase leaves behind
recordPhase(l, p, status) == Append(l, [name |-> p, status |-> status])

\* variant of emergencyCleanupRaises: the body is not wrapped in try/catch
emergencyCleanupRaises_noTry(fails) == fails

\* emergencyCleanup wraps its whole body in try/catch: nothing leaves it
emergencyCleanupRaises(fails) == FALSE

\* the phases that launch a browser
BrowserPhases(v) ==
    IF v = 1
    THEN {"setupBrowsers", "verifyTestSiteAvailability", "verifyApplicationEndpoints"}
    ELSE {"setupBrowsers", "verifyTestSiteAvailability", "setupAuthentication"}

\* the browser call that rejects when the browser operation of a phase
\* fails: the launch, newContext, a call on the page, or one of the closes
BrowserSteps == {"launch", "newContext", "goto", "close"}

\* the phase ends with its launched browser open.  setupBrowsers,
\* verifyTestSiteAvailability and verifyApplicationEndpoints call
\* browser.close() on the straight-line path of their try block only;
\* setupAuthentication launches and creates the context before its try and
\* closes context and browser in its finally block
leavesBrowserOpen(p, fails, step, v) ==
    /\ p \in BrowserPhases(v)
    /\ <<p, "browser">> \in fails
    /\ step # "launch"
    /\ ~(p = "setupAuthentication" /\ step = "goto")

\* the files setup persists
PerformanceFile == "config/performance.json"
EnvironmentInfoFile == "test-results/environment-info.json"
PartialFiles == {EnvironmentInfoFile, PerformanceFile}

\* the persisted files after phase p: cleanPreviousArtifacts unlinks the
\* .json files of test-results unless its readdir or unlink fails,
\* setupPerformanceMonitoring and setupTestEnvironmentInfo write their file
filesAfterPhase(fs, p, fails) ==
    CASE p = "cleanPreviousArtifacts" ->
             IF failingOps(p, fails) # {} THEN fs ELSE fs \ {EnvironmentInfoFile}
      [] p = "setupPerformanceMonitoring" ->
             IF failingOps(p, fails) # {} THEN fs ELSE fs \cup {PerformanceFile}
      [] p = "setupTestEnvironmentInfo" ->
             IF failingOps(p, fails) # {} THEN fs ELSE fs \cup {EnvironmentInfoFile}
      [] OTHER -> fs

\* the first revision of emergencyCleanup unlinks the partial files and
\* ignores an unlink that fails; the second removes the auth files only
filesAfterEmergencyCleanup(fs, fails, v) ==
    IF v = 1 /\ ~fails THEN fs \ PartialFiles ELSE fs

SetupStartPhase ==
    /\ scenario = "setup"
    /\ pc = "run"
    /\ awaitSettled(running)
    /\ Len(started) < Len(SetupPhases(variant))
    /\ LET p == SetupPhases(variant)[Len(started) + 1]
       IN  /\ started' = Append(started, p)
           /\ running' = running \cup {p}
    /\ UNCHANGED <<inputs, componentVars, setupEffects, pc, finished, ledger, caught, cleanupCalls,
                   cleanupDone, outcome, thrown, overallStatus, errors>>

SetupSettlePhase ==
    /\ scenario = "setup"
    /\ pc = "run"
    /\ \E p \in running :
         LET threw == setupPhaseThrows(p, opFails, env, variant)
         IN  /\ running' = running \ {p}
             /\ finished' = IF threw THEN finished ELSE finished \cup {p}
             /\ ledger' = recordPhase(ledger, p,
                                      IF threw THEN "Failed" ELSE "Succeeded")
             /\ caught' = IF threw /\ caught = NoError THEN p ELSE caught
             /\ pc' = setupAfterPhase(threw)
             /\ \E step \in BrowserSteps :
                  openBrowsers' = IF leavesBrowserOpen(p, opFails, step, variant)
                                  THEN openBrowsers \cup {p}
                                  ELSE openBrowsers
             /\ files' = filesAfterPhase(files, p, opFails)
    /\ UNCHANGED <<inputs, componentVars, started, cleanupCalls, cleanupDone, outcome,
                   thrown, overallStatus, errors>>

\* lines 55-62: every phase returned
SetupComplete ==
    /\ scenario = "setup"
    /\ pc = "run"
    /\ awaitSettled(running)
    /\ Len(started) = Len(SetupPhases(variant))
    /\ overallStatus' = "Succeeded"
    /\ outcome' = "returned"
    /\ pc' = "done"
    /\ UNCHANGED <<inputs, componentVars, setupEffects, started, running, finished, ledger, caught,
                   cleanupCalls, cleanupDone, thrown, errors>>

\* lines 64-76: log the failure, call emergencyCleanup
SetupCatch ==
    /\ scenario = "setup"
    /\ pc = "catch"
    /\ overallStatus' = "Failed"
    /\ cleanupCalls' = cleanupCalls + 1
    /\ pc' = "cleanup"
    /\ UNCHANGED <<inputs, componentVars, setupEffects, started, running, finished, ledger, caught,
                   cleanupDone, outcome, thrown, errors>>

\* emergencyCleanup settles; `await emergencyCleanup()` then falls through
EmergencyCleanupSettle ==
    /\ scenario = "setup"
    /\ pc = "cleanup"
    /\ IF emergencyCleanupRaises(cleanupFails)
       THEN /\ outcome' = "threw"
            /\ thrown' = "emergencyCleanup"
            /\ pc' = "done"
            /\ UNCHANGED cleanupDone
       ELSE /\ cleanupDone' = cleanupDone + 1
            /\ pc' = "rethrow"
            /\ UNCHANGED <<outcome, thrown>>
    /\ files' = filesAfterEmergencyCleanup(files, cleanupFails, variant)
    /\ UNCHANGED <<inputs, componentVars, openBrowsers, started, running, finished, ledger, caught,
                   cleanupCalls, overallStatus, errors>>

\* line 78: throw error
SetupRethrow ==
    /\ scenario = "setup"
    /\ pc = "rethrow"
    /\ outcome' = "threw"
    /\ thrown' = caught
    /\ pc' = "done"
    /\ UNCHANGED <<inputs, componentVars, setupEffects, started, running, finished, ledger, caught,
                   cleanupCalls, cleanupDone, overallStatus, errors>>

(***************************************************************************)
(* globalTeardown                                                          *)
(***************************************************************************)
\* variant of TeardownPhases: the final summary is generated before the
\* browser processes are cleaned up
TeardownPhases_summaryEarly(v) ==
    IF v = 1
    THEN <<"generateTestExecutionReport", "processTestArtifacts",
           "generateAllureReport", "cleanupTemporaryFiles", "archiveLogs",
           "generatePerformanceSummary", "sendNotifications",
           "generateFinalSummary", "cleanupBrowserProcesses">>
    ELSE <<"processTestArtifacts", "cleanupTemporaryFiles", "archiveLogs",
           "generateFinalSummary", "cleanupBrowserProcesses">>

TeardownPhases(v) ==
    IF v = 1
    THEN <<"generateTestExecutionReport", "processTestArtifacts",
           "generateAllureReport", "cleanupTemporaryFiles", "archiveLogs",
           "generatePerformanceSummary", "sendNotifications",
           "cleanupBrowserProcesses", "generateFinalSummary">>
    ELSE <<"processTestArtifacts", "cleanupTemporaryFiles", "archiveLogs",
           "cleanupBrowserProcesses", "generateFinalSummary">>

\* one awaited operation per teardown phase
TeardownOps(v) == {<<TeardownPhases(v)[i], "body">> : i \in 1..Len(TeardownPhases(v))}

\* phases whose failing operations are caught below the phase's own handler
\* (inner try/catch or .catch(() => {})): the phase logs its success record
innerSwallow(p) ==
    p \in {"cleanupTemporaryFiles", "sendNotifications", "cleanupBrowserProcesses"}

\* the record a teardown phase logs last: its catch block logs the failure
teardownPhaseStatus(p, failed) ==
    IF failed /\ ~innerSwallow(p) THEN "Failed" ELSE "Succeeded"

\* variant of teardownPhaseRaises: the phase's catch block rethrows
teardownPhaseRaises_rethrow(p, failed, esc) == failed \/ p = esc

\* every teardown phase wraps its awaited operations in try/catch without
\* rethrow; only an error raised outside that handler leaves the phase
teardownPhaseRaises(p, failed, esc) == p = esc

\* basicCleanup: .catch(() => {}) on each operation inside a try/catch
basicCleanupRaises(fails) == FALSE

\* variant of teardownCatchOutcome: the catch block ends with `throw error`
teardownCatchOutcome_rethrow(cleanupRaised) == "threw"

\* the catch block of globalTeardown logs, awaits basicCleanup and ends
teardownCatchOutcome(cleanupRaised) ==
    IF cleanupRaised THEN "threw" ELSE "returned"

TeardownStartPhase ==
    /\ scenario = "teardown"
    /\ pc = "run"
    /\ awaitSettled(running)
    /\ Len(started) < Len(TeardownPhases(variant))
    /\ LET p == TeardownPhases(variant)[Len(started) + 1]
       IN  /\ started' = Append(started, p)
           /\ running' = running \cup {p}
    /\ UNCHANGED <<inputs, componentVars, setupEffects, pc, finished, ledger, caught, cleanupCalls,
                   cleanupDone, outcome, thrown, overallStatus, errors>>

\* a phase settles; when it rejects, control goes through the catch block
\* (lines 61-74): log the failure, await basicCleanup, return
TeardownSettlePhase ==
    /\ scenario = "teardown"
    /\ pc = "run"
    /\ \E p \in running :
         LET failed == failingOps(p, opFails) # {}
             raised == teardownPhaseRaises(p, failed, escapeAt)
             cleanupRaised == basicCleanupRaises(cleanupFails)
         IN  /\ running' = running \ {p}
             /\ IF raised
                THEN /\ ledger' = recordPhase(ledger, p, "Failed")
                     /\ caught' = p
                     /\ overallStatus' = "Failed"
                     /\ cleanupCalls' = cleanupCalls + 1
                     /\ cleanupDone' = IF cleanupRaised THEN cleanupDone
                                       ELSE cleanupDone + 1
                     /\ outcome' = teardownCatchOutcome(cleanupRaised)
                     /\ thrown' = IF outcome' = "threw"
                                  THEN (IF cleanupRaised THEN "basicCleanup" ELSE p)
                                  ELSE NoError
                     /\ pc' = "done"
                     /\ UNCHANGED finished
                ELSE /\ ledger' = recordPhase(ledger, p, teardownPhaseStatus(p, failed))
                     /\ finished' = finished \cup {p}
                     /\ UNCHANGED <<pc, caught, overallStatus, cleanupCalls,
                                    cleanupDone, outcome, thrown>>
    /\ UNCHANGED <<inputs, componentVars, setupEffects, started, errors>>

\* lines 52-58: every phase returned
TeardownComplete ==
    /\ scenario = "teardown"
    /\ pc = "run"
    /\ awaitSettled(running)
    /\ Len(started) = Len(TeardownPhases(variant))
    /\ overallStatus' = "Succeeded"
    /\ outcome' = "returned"
    /\ pc' = "done"
    /\ UNCHANGED <<inputs, componentVars, setupEffects, started, running, finished, ledger, caught,
                   cleanupCalls, cleanupDone, thrown, errors>>

(***************************************************************************)
(* One call of a validation routine on the configuration `env`.            *)
(***************************************************************************)
Validate ==
    /\ scenario = "validate"
    /\ pc = "validate"
    /\ errors' = IF validator = "validateEnvironment"
                 THEN validateEnvironment(env, variant)
                 ELSE validateConfiguration(env)
    /\ outcome' = IF errors' # <<>> THEN "threw" ELSE "returned"
    /\ thrown' = IF errors' # <<>> THEN validator ELSE NoError
    /\ pc' = "done"
    /\ UNCHANGED <<inputs, componentVars, setupEffects, started, running, finished, ledger, caught,
                   cleanupCalls, cleanupDone, overallStatus>>

(***************************************************************************)
(* ApiHelper.waitForEndpoint: polls `this.get(endpoint)` until an answer   *)
(* with status below 500 arrives or `timeout` ms have passed since the     *)
(* call, sleeping `interval` ms after every unsuccessful poll.             *)
(***************************************************************************)
\* Date.now() at the call of waitForEndpoint
StartTime == 0

ProbeTimeouts == {-100, 0, 100, 200}
ProbeIntervals == {50, 100}
Latencies == {0, 40, 50}

\* setTimeout fires no earlier than the delay and up to MaxOvershoot ms late
MaxOvershoot == 5
Overshoots == {0, MaxOvershoot}

\* what one `await this.get(endpoint)` produces
Status(n) == [kind |-> "status", status |-> n]
RequestFailed == [kind |-> "error", status |-> 0]
NotInitialized == [kind |-> "uninit", status |-> 0]
Statuses == {404, 500, 503}

\* makeRequest throws at once without a request context; otherwise it
\* returns the response whatever its status, or rethrows a transport error
Answers(ready) ==
    IF ready THEN {Status(n) : n \in Statuses} \cup {RequestFailed}
    ELSE {NotInitialized}

requestLatency(ready, d) == IF ready THEN d ELSE 0

getRaises(answer) == answer.kind # "status"

\* variant of isAvailable: status 500 counts as available
isAvailable_inclusive(response) == response.status <= 500

\* `response.status < 500`
isAvailable(response) == response.status < 500

\* variant of the loop test: a poll may start when the timeout has just elapsed
withinTimeout_inclusive(t, timeout) == t - StartTime <= timeout

\* `Date.now() - startTime < timeout`
withinTimeout(t, timeout) == t - StartTime < timeout

\* variant of sleepDelay: the pause lasts two intervals
sleepDelay_double(interval, overshoot) == 2 * interval + overshoot

\* `await new Promise(resolve => setTimeout(resolve, interval))`
sleepDelay(interval, overshoot) == interval + overshoot

\* variant of afterPoll: no try/catch around the request
afterPoll_propagate(answer) ==
    IF getRaises(answer) THEN "throw"
    ELSE IF isAvailable(answer) THEN "return"
    ELSE "sleep"

\* the body of the loop after the awaited request has settled
afterPoll(answer) ==
    IF getRaises(answer) THEN "sleep"
    ELSE IF isAvailable(answer) THEN "return"
    ELSE "sleep"

\* the loop condition
ProbeTest ==
    /\ scenario = "probe"
    /\ pc = "test"
    /\ IF withinTimeout(now, probeTimeout)
       THEN /\ pc' = "request"
            /\ UNCHANGED <<result, outcome>>
       ELSE /\ pc' = "done"
            /\ result' = "false"
            /\ outcome' = "returned"
    /\ UNCHANGED <<inputs, lifecycleVars, utilityVars, now, polls, artifactVars>>

\* one awaited request and the statements up to the end of the try block
ProbeRequest ==
    /\ scenario = "probe"
    /\ pc = "request"
    /\ \E answer \in Answers(apiReady) :
         /\ polls' = Append(polls, answer)
         /\ now' = now + requestLatency(apiReady, probeLatency)
         /\ LET then == afterPoll(answer)
            IN  /\ pc' = IF then = "sleep" THEN "sleep" ELSE "done"
                /\ result' = IF then = "return" THEN "true" ELSE result
                /\ outcome' = CASE then = "return" -> "returned"
                                 [] then = "throw" -> "threw"
                                 [] OTHER -> outcome
    /\ UNCHANGED <<inputs, lifecycleVars, utilityVars, artifactVars>>

\* the pause between two polls
ProbeSleep ==
    /\ scenario = "probe"
    /\ pc = "sleep"
    /\ \E overshoot \in Overshoots :
         now' = now + sleepDelay(probeInterval, overshoot)
    /\ pc' = "test"
    /\ UNCHANGED <<inputs, lifecycleVars, utilityVars, polls, result, outcome, artifactVars>>

(***************************************************************************)
(* generatePerformanceSummary: collectPerformanceData parses the           *)
(* performance lines of the execution log into records, the summary holds  *)
(* per-category averages and maxima and the list of threshold violations.  *)
(***************************************************************************)
MaxLines == 3

\* parseInt(process.env.PAGE_LOAD_THRESHOLD) and ...API_RESPONSE_THRESHOLD
PageLoadThreshold == 200
ApiResponseThreshold == 100

\* labels (the `action` of a log entry), as character sequences
PageNavigation ==
    <<"P", "a", "g", "e", " ", "N", "a", "v", "i", "g", "a", "t", "i", "o", "n">>
ApiLabel == <<"G", "E", "T", " ", "A", "P", "I">>
LowerLabel == <<"a", "p", "i", " ", "p", "i", "n", "g">>
NoLabel == <<>>
UnknownLabel == <<"u", "n", "k", "n", "o", "w", "n">>
Labels == {NoLabel, PageNavigation, ApiLabel, LowerLabel}

\* the `duration` of a log entry: absent, the text "<n>ms", or other text
NoDigits == -1
AbsentText == [present |-> FALSE, digits |-> NoDigits, rest |-> ""]
NonNumericText == [present |-> TRUE, digits |-> NoDigits, rest |-> "fast"]
DurationText(n) == [present |-> TRUE, digits |-> n, rest |-> "ms"]
Durations == {100, 200, 300}
DurationTexts == {AbsentText, NonNumericText} \cup {DurationText(n) : n \in Durations}

\* a line of the log: without the marker "type":"performance", with the
\* marker but not JSON, or the JSON of a performance entry
OtherLine == [kind |-> "other", action |-> NoLabel, duration |-> AbsentText]
GarbledLine == [kind |-> "garbled", action |-> NoLabel, duration |-> AbsentText]
PerfLine(a, d) == [kind |-> "perf", action |-> a, duration |-> d]
Lines == {OtherLine, GarbledLine} \cup {PerfLine(a, d) : a \in Labels, d \in DurationTexts}

Logs == UNION {[1..n -> Lines] : n \in 0..MaxLines}

\* String.prototype.includes
includes(str, sub) ==
    \E i \in 1..(Len(str) - Len(sub) + 1) : SubSeq(str, i, i + Len(sub) - 1) = sub

\* parseInt of the duration text: the leading digits, NaN without any
parseInt(text) ==
    IF text.present /\ text.digits # NoDigits THEN Num(text.digits) ELSE NaNValue

\* `fs.readFile(logFile).catch(() => '')` followed by split
readLog(exists, content) == IF exists THEN content ELSE <<>>

\* JSON.parse(line) throws
parseRaises(line) == line.kind = "garbled"

\* the record pushed for line i, as a sequence of zero or one records
parseLine(line, i, v) ==
    IF line.kind = "other" \/ parseRaises(line) THEN <<>>
    ELSE IF v = 1
    THEN <<[testName |-> IF line.action # NoLabel THEN line.action ELSE UnknownLabel,
            pageLoad |-> IF line.action = PageNavigation
                         THEN parseInt(line.duration) ELSE Unset,
            apiResponse |-> IF includes(line.action, <<"A", "P", "I">>)
                            THEN parseInt(line.duration) ELSE Unset,
            timestamp |-> i]>>
    ELSE IF line.action # NoLabel /\ line.duration.present
    THEN <<[testName |-> line.action,
            type |-> IF includes(line.action, <<"A", "P", "I">>)
                     THEN "apiResponse" ELSE "pageLoad",
            duration |-> parseInt(line.duration),
            timestamp |-> i]>>
    ELSE <<>>

RECURSIVE collectFrom(_, _, _)
collectFrom(lines, i, v) ==
    IF i > Len(lines) THEN <<>>
    ELSE parseLine(lines[i], i, v) \o collectFrom(lines, i + 1, v)

collectPerformanceData(exists, content, v) == collectFrom(readLog(exists, content), 1, v)

\* numbers of the report: a quotient, NaN, or -Infinity
Quotient(sum, count) == [kind |-> "num", n |-> sum, den |-> count]
NaNNumber == [kind |-> "nan", n |-> 0, den |-> 1]
NegInfinity == [kind |-> "-inf", n |-> 0, den |-> 1]

RECURSIVE SumSeq(_)
SumSeq(values) ==
    IF values = <<>> THEN 0 ELSE Head(values).n + SumSeq(Tail(values))

\* sum / length of a non-empty list of numbers, NaN if one of them is NaN
meanOf(values) ==
    IF \E i \in 1..Len(values) : values[i].kind = "nan" THEN NaNNumber
    ELSE Quotient(SumSeq(values), Len(values))

\* variant of fieldValues: undefined values are kept (and count as 0)
fieldValues_all(data, field) == [i \in 1..Len(data) |-> data[i][field]]

\* the values of `field` that are neither undefined nor null
fieldValues(data, field) ==
    LET all == [i \in 1..Len(data) |-> data[i][field]]
    IN  SelectSeq(all, LAMBDA x : x.kind # "unset")

calculateAverage(data, field, v) ==
    IF v = 1
    THEN LET values == fieldValues(data, field)
         IN  IF Len(values) > 0 THEN meanOf(values) ELSE Quotient(0, 1)
    ELSE IF Len(data) = 0 THEN Quotient(0, 1)
         ELSE meanOf([i \in 1..Len(data) |-> data[i][field]])

\* `x || 0` on a number or undefined
orZero(x) == IF x.kind = "num" /\ x.n # 0 THEN x.n ELSE 0

\* variant of mathMax: an empty argument list gives 0
mathMax_guarded(values) ==
    IF values = <<>> THEN Quotient(0, 1)
    ELSE Quotient(CHOOSE m \in Range(values) : \A x \in Range(values) : x <= m, 1)

\* Math.max(...values)
mathMax(values) ==
    IF values = <<>> THEN NegInfinity
    ELSE Quotient(CHOOSE m \in Range(values) : \A x \in Range(values) : x <= m, 1)

ofType(data, type) == SelectSeq(data, LAMBDA d : d.type = type)

\* `a && a > t` on a number or undefined
exceeds(x, t) == x.kind = "num" /\ x.n > t

\* variant of isViolation: a duration equal to the threshold is a violation
isViolation_inclusive(d, v) ==
    IF v = 1
    THEN \/ d.pageLoad.kind = "num" /\ d.pageLoad.n >= PageLoadThreshold
         \/ d.apiResponse.kind = "num" /\ d.apiResponse.n >= ApiResponseThreshold
    ELSE \/ d.type = "pageLoad" /\ d.duration.kind = "num" /\ d.duration.n >= PageLoadThreshold
         \/ d.type = "apiResponse" /\ d.duration.kind = "num" /\ d.duration.n >= ApiResponseThreshold

\* the predicate of the violations filter
isViolation(d, v) ==
    IF v = 1
    THEN exceeds(d.pageLoad, PageLoadThreshold)
         \/ exceeds(d.apiResponse, ApiResponseThreshold)
    ELSE \/ d.type = "pageLoad" /\ exceeds(d.duration, PageLoadThreshold)
         \/ d.type = "apiResponse" /\ exceeds(d.duration, ApiResponseThreshold)

performanceReport(data, v) ==
    [data |-> data,
     total |-> Len(data),
     averagePageLoad |->
         IF v = 1 THEN calculateAverage(data, "pageLoad", v)
         ELSE calculateAverage(ofType(data, "pageLoad"), "duration", v),
     averageApiResponse |->
         IF v = 1 THEN calculateAverage(data, "apiResponse", v)
         ELSE calculateAverage(ofType(data, "apiResponse"), "duration", v),
     slowestPageLoad |->
         IF v = 1 THEN mathMax([i \in 1..Len(data) |-> orZero(data[i].pageLoad)])
         ELSE LET own == ofType(data, "pageLoad")
              IN  mathMax([i \in 1..Len(own) |-> orZero(own[i].duration)]),
     slowestApiResponse |->
         IF v = 1 THEN mathMax([i \in 1..Len(data) |-> orZero(data[i].apiResponse)])
         ELSE LET own == ofType(data, "apiResponse")
              IN  mathMax([i \in 1..Len(own) |-> orZero(own[i].duration)]),
     violations |-> SelectSeq(data, LAMBDA d : isViolation(d, v))]

\* one call of generatePerformanceSummary, up to the report it serializes
GeneratePerformanceSummary ==
    /\ scenario = "performance"
    /\ pc = "aggregate"
    /\ result' = performanceReport(collectPerformanceData(logExists, log, variant), variant)
    /\ outcome' = "returned"
    /\ pc' = "done"
    /\ UNCHANGED <<inputs, lifecycleVars, utilityVars, now, polls, artifactVars>>

(***************************************************************************)
(* processTestArtifacts: organizeArtifacts(kind, pattern) copies the files  *)
(* of the source directory <kindIndex> whose name matches the pattern into the  *)
(* target directory test-artifacts/<kindIndex>, for screenshots, videos and     *)
(* traces in turn; copyImportantLogs then copies the log files.  The phase *)
(* is preceded by the cleanPreviousArtifacts phase of setup and the test   *)
(* run that fills the source directories.                                  *)
(***************************************************************************)
MaxFiles == 3

\* file names, as character sequences
FileA == <<"a", ".", "p", "n", "g">>
FileB == <<"b", ".", "p", "n", "g">>
FileUpper == <<"c", ".", "P", "N", "G">>
FileText == <<"n", ".", "t", "x", "t">>
FileBackup == <<"e", ".", "p", "n", "g", "~">>
FileNames == {FileA, FileB, FileUpper, FileText, FileBackup}

\* a screenshot of an earlier run, the video and the trace of this run,
\* the execution log
FileStale == <<"o", ".", "p", "n", "g">>
FileVideo == <<"v", ".", "w", "e", "b", "m">>
FileTrace == <<"t", ".", "z", "i", "p">>
FileLog == <<"t", ".", "l", "o", "g">>

\* directory listings: each name at most once
Listings ==
    {l \in UNION {[1..n -> FileNames] : n \in 0..MaxFiles} :
        \A i, j \in 1..Len(l) : i # j => l[i] # l[j]}

\* the kinds processTestArtifacts organizes, in order
Kinds == <<"screenshots", "videos", "traces">>

\* the directory of a kind's source files and of its organized copies
SourceDir(k) == <<k>>
TargetDir(k) == <<"test-artifacts", k>>

lower(ch) == CASE ch = "P" -> "p" [] ch = "N" -> "n" [] ch = "G" -> "g" [] OTHER -> ch
toLowerCase(str) == [i \in 1..Len(str) |-> lower(str[i])]
endsWith(str, suffix) ==
    Len(str) >= Len(suffix) /\ SubSeq(str, Len(str) - Len(suffix) + 1, Len(str)) = suffix

\* the extension in the glob the first revision passes for a kind
globExtension(k) ==
    CASE k = "screenshots" -> <<"p", "n", "g">>
      [] k = "videos" -> <<"w", "e", "b", "m">>
      [] OTHER -> <<"z", "i", "p">>

\* the extensions in the expression the second revision passes for a kind
regexExtensions(k) ==
    CASE k = "screenshots" -> {<<".", "p", "n", "g">>, <<".", "j", "p", "g">>,
                               <<".", "j", "p", "e", "g">>}
      [] k = "videos" -> {<<".", "w", "e", "b", "m">>, <<".", "m", "p", "4">>}
      [] OTHER -> {<<".", "z", "i", "p">>}

\* first revision: file.match('.*.png'), the glob '**/*.png' after the two
\* replacements, an unanchored expression in which `.` is any character;
\* second revision: /\.(png|jpg|jpeg)$/i.test(file)
matchesPattern(file, k, v) ==
    IF v = 1
    THEN LET ext == globExtension(k)
         IN  \E i \in 2..(Len(file) - Len(ext) + 1) :
                 SubSeq(file, i, i + Len(ext) - 1) = ext
    ELSE \E ext \in regexExtensions(k) : endsWith(toLowerCase(file), ext)

\* a rejected copyFile leaves the loop: the second revision catches it
\* inside the loop body, the first only in the handler of the function
copyRaises(file, fails, v) == v = 1 /\ file \in fails

\* the directories cleanPreviousArtifacts empties, with the name endings it
\* removes
ArtifactDirs ==
    {[dir |-> <<"test-results">>, patterns |-> {<<".", "j", "s", "o", "n">>}],
     [dir |-> <<"screenshots">>,
      patterns |-> {<<".", "p", "n", "g">>, <<".", "j", "p", "g">>}],
     [dir |-> <<"videos">>,
      patterns |-> {<<".", "w", "e", "b", "m">>, <<".", "m", "p", "4">>}],
     [dir |-> <<"traces">>, patterns |-> {<<".", "z", "i", "p">>}]}

\* cleanPreviousArtifacts unlinks `file` of directory `dir`
cleans(dir, file) ==
    \E a \in ArtifactDirs :
        a.dir = dir /\ \E pattern \in a.patterns : endsWith(file, pattern)

\* the order in which readdir lists the files a source directory can hold
ListingOrder(k) ==
    CASE k = "screenshots" -> <<FileStale>> \o sourceFiles
      [] k = "videos" -> <<FileVideo>>
      [] OTHER -> <<FileTrace>>

\* variant of readdir: the directory is listed although it cannot be read
readdir_listed(k) == SelectSeq(ListingOrder(k), LAMBDA f : <<k, f>> \in source)

\* `fs.readdir(sourceDir).catch(() => [])`
readdir(k) ==
    IF k \in unreadable THEN <<>>
    ELSE SelectSeq(ListingOrder(k), LAMBDA f : <<k, f>> \in source)

\* the source directories after fs.copyFile(sourcePath, targetPath)
copyFile(src, k, file) == src

\* the cleanup phase of the setup run that precedes the test run
CleanPreviousArtifacts ==
    /\ scenario = "artifacts"
    /\ pc = "clean"
    /\ source' = {e \in source : ~cleans(SourceDir(e[1]), e[2])}
    /\ target' = {e \in target : ~cleans(TargetDir(e[1]), e[2])}
    /\ pc' = "tests"
    /\ UNCHANGED <<inputs, lifecycleVars, utilityVars, now, polls, result, outcome,
                   remaining, kindIndex, runs, firstTarget, organized>>

\* the test run writes its screenshots, video and trace
RunTests ==
    /\ scenario = "artifacts"
    /\ pc = "tests"
    /\ source' = source \cup {<<"screenshots", f>> : f \in Range(sourceFiles)}
                        \cup {<<"videos", FileVideo>>, <<"traces", FileTrace>>}
    /\ kindIndex' = 1
    /\ runs' = 1
    /\ pc' = "organize"
    /\ UNCHANGED <<inputs, lifecycleVars, utilityVars, now, polls, result, outcome,
                   remaining, target, firstTarget, organized>>

\* after organizeArtifacts has returned: the next kind, or the logs
afterKind(i) == IF i < Len(Kinds) THEN "organize" ELSE "logs"
nextKind(i) == IF i < Len(Kinds) THEN i + 1 ELSE i

\* mkdir of the target directory and readdir of the source directory
OrganizeStart ==
    /\ scenario = "artifacts"
    /\ pc = "organize"
    /\ remaining' = readdir(Kinds[kindIndex])
    /\ organized' = Append(organized, Kinds[kindIndex])
    /\ pc' = "copy"
    /\ UNCHANGED <<inputs, lifecycleVars, utilityVars, now, polls, result, outcome,
                   target, source, kindIndex, runs, firstTarget>>

\* one iteration of the loop over the listing
OrganizeCopy ==
    /\ scenario = "artifacts"
    /\ pc = "copy"
    /\ remaining # <<>>
    /\ LET file == Head(remaining)
           k == Kinds[kindIndex]
       IN  IF ~matchesPattern(file, k, variant)
           THEN /\ remaining' = Tail(remaining)
                /\ UNCHANGED <<target, source, pc, kindIndex>>
           ELSE IF copyRaises(file, copyFails, variant)
           THEN /\ pc' = afterKind(kindIndex)
                /\ kindIndex' = nextKind(kindIndex)
                /\ remaining' = <<>>
                /\ UNCHANGED <<target, source>>
           ELSE /\ target' = IF file \in copyFails THEN target
                             ELSE target \cup {<<k, file>>}
                /\ source' = IF file \in copyFails THEN source
                             ELSE copyFile(source, k, file)
                /\ remaining' = Tail(remaining)
                /\ UNCHANGED <<pc, kindIndex>>
    /\ UNCHANGED <<inputs, lifecycleVars, utilityVars, now, polls, result, outcome,
                   runs, firstTarget, organized>>

\* the end of the loop and the return of organizeArtifacts
OrganizeFinish ==
    /\ scenario = "artifacts"
    /\ pc = "copy"
    /\ remaining = <<>>
    /\ pc' = afterKind(kindIndex)
    /\ kindIndex' = nextKind(kindIndex)
    /\ UNCHANGED <<inputs, lifecycleVars, utilityVars, now, polls, result, outcome,
                   remaining, target, source, runs, firstTarget, organized>>

\* copyImportantLogs and the return of processTestArtifacts; the phase is
\* then invoked a second time on the unchanged source directories
CopyImportantLogs ==
    /\ scenario = "artifacts"
    /\ pc = "logs"
    /\ target' = IF logExists THEN target \cup {<<"logs", FileLog>>} ELSE target
    /\ organized' = Append(organized, "logs")
    /\ IF runs = 1
       THEN /\ runs' = 2
            /\ firstTarget' = target'
            /\ kindIndex' = 1
            /\ pc' = "organize"
            /\ UNCHANGED outcome
       ELSE /\ pc' = "done"
            /\ outcome' = "returned"
            /\ UNCHANGED <<runs, firstTarget, kindIndex>>
    /\ UNCHANGED <<inputs, lifecycleVars, utilityVars, now, polls, result, remaining, source>>

(***************************************************************************)
(* TestUtils.retryWithBackoff(fn, maxRetries, baseDelay): invokes fn until *)
(* it resolves, waiting between failed attempts.  The k-th invocation of   *)
(* fn settles as fnOutcomes[k] says.                                       *)
(***************************************************************************)
MaxRetries == 3
BaseDelays == {100, 1000}

\* what fn can reject with: an Error, or a value that is not an Error
ErrorObject(m) == [isError |-> TRUE, message |-> m]
StringValue(m) == [isError |-> FALSE, message |-> m]
NoRejection == [isError |-> FALSE, message |-> "none"]

\* how an invocation of fn settles
Resolved(v) == [kind |-> "resolved", value |-> v]
Rejected(e) == [kind |-> "rejected", error |-> e]
FnOutcomes ==
    {Resolved("first"), Resolved("second"),
     Rejected(ErrorObject("timeout")), Rejected(ErrorObject("refused")),
     Rejected(StringValue("busy"))}

\* `error instanceof Error ? error : new Error(String(error))`
toError(e) == IF e.isError THEN e ELSE ErrorObject(e.message)

\* variant of the delay: the same delay after every attempt
backoffDelay_constant(base, k) == base

\* `baseDelay * Math.pow(2, attempt - 1)`
backoffDelay(base, k) == base * 2^(k - 1)

\* the loop condition and `return await fn()` with its catch clause
RetryAttempt ==
    /\ scenario = "retry"
    /\ pc = "attempt"
    /\ attempt <= maxRetries
    /\ invocations' = Append(invocations, attempt)
    /\ LET settled == fnOutcomes[attempt]
       IN  IF settled.kind = "resolved"
           THEN /\ result' = settled.value
                /\ outcome' = "returned"
                /\ pc' = "done"
                /\ UNCHANGED lastError
           ELSE /\ lastError' = toError(settled.error)
                /\ pc' = IF attempt = maxRetries THEN "throw" ELSE "wait"
                /\ UNCHANGED <<result, outcome>>
    /\ UNCHANGED <<inputs, lifecycleVars, now, polls, artifactVars,
                   attempt, waits, rejection, configVars, calls, apiVars>>

\* the delay after a failed attempt that was not the last, and `attempt++`
RetryWait ==
    /\ scenario = "retry"
    /\ pc = "wait"
    /\ waits' = Append(waits, backoffDelay(baseDelay, attempt))
    /\ attempt' = attempt + 1
    /\ pc' = "attempt"
    /\ UNCHANGED <<inputs, lifecycleVars, now, polls, result, outcome,
                   artifactVars, invocations, lastError, rejection,
                   configVars, calls, apiVars>>

\* `throw lastError!`
RetryThrow ==
    /\ scenario = "retry"
    /\ pc = "throw"
    /\ rejection' = lastError
    /\ outcome' = "threw"
    /\ pc' = "done"
    /\ UNCHANGED <<inputs, lifecycleVars, now, polls, result, artifactVars,
                   retryVars, configVars, calls, apiVars>>

(***************************************************************************)
(* ConfigManager: the held configuration, the overrides, and the calls     *)
(* get, set, clearOverrides and loadConfigFromFile in any order.  The      *)
(* configuration is represented by its numeric settings TIMEOUT and        *)
(* WORKERS, the other settings staying valid.                              *)
(***************************************************************************)
MaxCalls == 3

ConfigKeys == {"TIMEOUT", "WORKERS"}

\* the values a caller passes to set
SetValues(k) ==
    IF k = "TIMEOUT" THEN {Num(MinTimeout - 1), Num(5 * MinTimeout)}
    ELSE {Num(8)}

NoOverrides == [k \in {} |-> Unset]

\* what loadConfigFromFile finds at configPath
UnreadableFile == [kind |-> "unreadable", environment |-> NoOverrides]
InvalidJsonFile == [kind |-> "invalid", environment |-> NoOverrides]
JsonFile(k, v) == [kind |-> "json", environment |-> [x \in {k} |-> v]]
ConfigFiles ==
    {UnreadableFile, InvalidJsonFile,
     JsonFile("TIMEOUT", Num(2 * MinTimeout)),
     JsonFile("TIMEOUT", Num(MinTimeout - 1)),
     JsonFile("WORKERS", Num(2))}

\* `fs.readFile` or `JSON.parse` throws
readRaises(file) == file.kind # "json"

\* mergeConfigs(this.config, fileConfig), on the environment settings
mergeConfigs(c, fileEnvironment) ==
    [k \in DOMAIN c |->
        IF k \in DOMAIN fileEnvironment THEN fileEnvironment[k] ELSE c[k]]

\* variant of setOverride: an override that exists is kept
setOverride_keepFirst(o, k, v) ==
    IF k \in DOMAIN o THEN o
    ELSE [x \in DOMAIN o \cup {k} |-> IF x = k THEN v ELSE o[x]]

\* `this.environmentOverrides[key] = value`
setOverride(o, k, v) ==
    [x \in DOMAIN o \cup {k} |-> IF x = k THEN v ELSE o[x]]

\* get(key): the override when there is one, else the configuration value
get(k) ==
    IF k \in DOMAIN environmentOverrides THEN environmentOverrides[k]
    ELSE config[k]

\* getConfig(): a copy of the held configuration
getConfig == config

Call(op, key, value) == [op |-> op, key |-> key, value |-> value]

ConfigGet ==
    /\ scenario = "config"
    /\ Len(calls) < MaxCalls
    /\ \E k \in ConfigKeys :
         /\ result' = get(k)
         /\ calls' = Append(calls, Call("get", k, Unset))
    /\ heldBefore' = config
    /\ outcome' = "returned"
    /\ rejection' = NoRejection
    /\ UNCHANGED <<inputs, lifecycleVars, now, polls, artifactVars, retryVars,
                   apiVars,
                   config, environmentOverrides, pc>>

ConfigSet ==
    /\ scenario = "config"
    /\ Len(calls) < MaxCalls
    /\ \E k \in ConfigKeys : \E v \in SetValues(k) :
         /\ environmentOverrides' = setOverride(environmentOverrides, k, v)
         /\ calls' = Append(calls, Call("set", k, v))
    /\ heldBefore' = config
    /\ outcome' = "returned"
    /\ rejection' = NoRejection
    /\ UNCHANGED <<inputs, lifecycleVars, now, polls, result, artifactVars,
                   retryVars, apiVars, config, pc>>

ConfigClearOverrides ==
    /\ scenario = "config"
    /\ Len(calls) < MaxCalls
    /\ environmentOverrides' = NoOverrides
    /\ calls' = Append(calls, Call("clearOverrides", "", Unset))
    /\ heldBefore' = config
    /\ outcome' = "returned"
    /\ rejection' = NoRejection
    /\ UNCHANGED <<inputs, lifecycleVars, now, polls, result, artifactVars,
                   retryVars, apiVars, config, pc>>

\* readFile and JSON.parse, then the merged configuration is assigned to
\* this.config and validated; every error is logged and rethrown
LoadConfigFromFile ==
    /\ scenario = "config"
    /\ Len(calls) < MaxCalls
    /\ \E file \in ConfigFiles :
         /\ calls' = Append(calls, Call("loadConfigFromFile", file.kind, Unset))
         /\ IF readRaises(file)
            THEN /\ outcome' = "threw"
                 /\ rejection' = ErrorObject(file.kind)
                 /\ UNCHANGED config
            ELSE /\ config' = mergeConfigs(config, file.environment)
                 /\ IF validateConfiguration(config') # <<>>
                    THEN /\ outcome' = "threw"
                         /\ rejection' = ErrorObject("Configuration validation failed")
                    ELSE /\ outcome' = "returned"
                         /\ rejection' = NoRejection
    /\ heldBefore' = config
    /\ UNCHANGED <<inputs, lifecycleVars, now, polls, result, artifactVars,
                   retryVars, apiVars, environmentOverrides, pc>>

(***************************************************************************)
(* ApiHelper: init, dispose and the request methods in any order.          *)
(***************************************************************************)
\* get, post, put, delete, patch go through makeRequest; postForm and
\* uploadFile test the context themselves
RequestMethods == {"GET", "POST", "PUT", "DELETE", "PATCH", "postForm", "uploadFile"}

NotInitializedMessage == "API context not initialized. Call init() first."

\* `if (!this.context) throw`
contextMissing(ctx) == ctx = "null"

\* variant of afterDispose: the field keeps the disposed context
afterDispose_keep(ctx) == ctx

\* `this.context = null` once `this.context.dispose()` has resolved
afterDispose(ctx) == "null"

\* request.newContext resolves and is assigned, or it rejects and init
\* throws 'Failed to initialize API context' with the field as it was
ApiInit ==
    /\ scenario = "api"
    /\ Len(calls) < MaxCalls
    /\ \E ok \in BOOLEAN :
         IF ok
         THEN /\ context' = "open"
              /\ calls' = Append(calls, Call("init", "", "ok"))
              /\ outcome' = "returned"
              /\ rejection' = NoRejection
         ELSE /\ calls' = Append(calls, Call("init", "", "failed"))
              /\ outcome' = "threw"
              /\ rejection' = ErrorObject("Failed to initialize API context")
              /\ UNCHANGED context
    /\ UNCHANGED <<inputs, lifecycleVars, now, polls, result, artifactVars,
                   retryVars, configVars, sent, pc>>

\* a request method: the guard on the context, then the call of the context
ApiRequest ==
    /\ scenario = "api"
    /\ Len(calls) < MaxCalls
    /\ \E method \in RequestMethods :
         IF contextMissing(context)
         THEN /\ calls' = Append(calls, Call("request", method, "not sent"))
              /\ outcome' = "threw"
              /\ rejection' = ErrorObject(NotInitializedMessage)
              /\ UNCHANGED sent
         ELSE /\ calls' = Append(calls, Call("request", method, "sent"))
              /\ sent' = sent + 1
              /\ outcome' = "returned"
              /\ rejection' = NoRejection
    /\ UNCHANGED <<inputs, lifecycleVars, now, polls, result, artifactVars,
                   retryVars, configVars, context, pc>>

\* dispose: nothing without a context; else the context is disposed and the
\* field cleared, unless the dispose of the context rejects
ApiDispose ==
    /\ scenario = "api"
    /\ Len(calls) < MaxCalls
    /\ IF contextMissing(context)
       THEN /\ calls' = Append(calls, Call("dispose", "", "nothing"))
            /\ outcome' = "returned"
            /\ rejection' = NoRejection
            /\ UNCHANGED context
       ELSE \E ok \in BOOLEAN :
                IF ok
                THEN /\ context' = afterDispose(context)
                     /\ calls' = Append(calls, Call("dispose", "", "ok"))
                     /\ outcome' = "returned"
                     /\ rejection' = NoRejection
                ELSE /\ calls' = Append(calls, Call("dispose", "", "failed"))
                     /\ outcome' = "threw"
                     /\ rejection' = ErrorObject("dispose")
                     /\ UNCHANGED context
    /\ UNCHANGED <<inputs, lifecycleVars, now, polls, result, artifactVars,
                   retryVars, configVars, sent, pc>>

(***************************************************************************)
(* Specifications                                                          *)
(***************************************************************************)
InitRun ==
    /\ started = <<>>
    /\ running = {}
    /\ finished = {}
    /\ ledger = <<>>
    /\ caught = NoError
    /\ cleanupCalls = 0
    /\ cleanupDone = 0
    /\ outcome = "pending"
    /\ thrown = NoError
    /\ overallStatus = "none"
    /\ errors = <<>>
    /\ openBrowsers = {}
    /\ files = IF priorFiles THEN PartialFiles ELSE {}
    /\ now = StartTime
    /\ polls = <<>>
    /\ result = "none"
    /\ remaining = <<>>
    /\ kindIndex = 0
    /\ runs = 0
    /\ firstTarget = {}
    /\ organized = <<>>

\* the arguments of waitForEndpoint when another entry point is invoked
NoProbe ==
    /\ probeTimeout = 0
    /\ probeInterval = 0
    /\ probeLatency = 0
    /\ apiReady = FALSE

\* the log when another entry point is invoked
NoLog ==
    /\ logExists = FALSE
    /\ log = <<>>

\* the artifact directories when another entry point is invoked
\* no call of retryWithBackoff
NoRetry ==
    /\ maxRetries = 1
    /\ baseDelay = 0
    /\ fnOutcomes = <<>>
    /\ attempt = 0
    /\ invocations = <<>>
    /\ waits = <<>>
    /\ lastError = NoRejection

\* no ConfigManager call
NoConfig ==
    /\ config = ValidEnv
    /\ environmentOverrides = NoOverrides
    /\ heldBefore = ValidEnv

\* no ApiHelper instance
NoApi ==
    /\ context = "null"
    /\ sent = 0

\* no utility is in use
NoUtilities ==
    /\ NoRetry
    /\ NoConfig
    /\ NoApi
    /\ calls = <<>>
    /\ rejection = NoRejection

NoArtifacts ==
    /\ sourceFiles = <<>>
    /\ copyFails = {}
    /\ unreadable = {}
    /\ staleRun = FALSE
    /\ source = {}
    /\ target = {}

InitSetup ==
    /\ scenario = "setup"
    /\ variant \in {1, 2}
    /\ opFails \in SUBSET SetupOps(variant)
    /\ env \in SetupEnvs
    /\ cleanupFails \in BOOLEAN
    /\ priorFiles \in BOOLEAN
    /\ escapeAt = NoPhase
    /\ validator = "none"
    /\ pc = "run"
    /\ NoProbe
    /\ NoLog
    /\ NoArtifacts
    /\ NoUtilities
    /\ InitRun

InitTeardown ==
    /\ scenario = "teardown"
    /\ variant \in {1, 2}
    /\ opFails \in SUBSET TeardownOps(variant)
    /\ env = ValidEnv
    /\ cleanupFails = FALSE
    /\ priorFiles = FALSE
    /\ escapeAt = NoPhase
    /\ validator = "none"
    /\ pc = "run"
    /\ NoProbe
    /\ NoLog
    /\ NoArtifacts
    /\ NoUtilities
    /\ InitRun

\* a teardown run in which a phase may raise past its own handler
InitTeardownEscape ==
    /\ scenario = "teardown"
    /\ variant \in {1, 2}
    /\ opFails \in SUBSET TeardownOps(variant)
    /\ env = ValidEnv
    /\ cleanupFails \in BOOLEAN
    /\ priorFiles = FALSE
    /\ escapeAt \in Range(TeardownPhases(variant)) \cup {NoPhase}
    /\ validator = "none"
    /\ pc = "run"
    /\ NoProbe
    /\ NoLog
    /\ NoArtifacts
    /\ NoUtilities
    /\ InitRun

InitValidate ==
    /\ scenario = "validate"
    /\ \/ validator = "validateEnvironment" /\ variant \in {1, 2}
       \/ validator = "validateConfiguration" /\ variant = 1
    /\ opFails = {}
    /\ env \in Envs
    /\ cleanupFails = FALSE
    /\ priorFiles = FALSE
    /\ escapeAt = NoPhase
    /\ pc = "validate"
    /\ NoProbe
    /\ NoLog
    /\ NoArtifacts
    /\ NoUtilities
    /\ InitRun

\* the inputs of the lifecycle entry points when a component is invoked
NoLifecycle ==
    /\ variant = 1
    /\ opFails = {}
    /\ env = ValidEnv
    /\ cleanupFails = FALSE
    /\ priorFiles = FALSE
    /\ escapeAt = NoPhase
    /\ validator = "none"

InitProbe ==
    /\ scenario = "probe"
    /\ probeTimeout \in ProbeTimeouts
    /\ probeInterval \in ProbeIntervals
    /\ probeLatency \in Latencies
    /\ apiReady \in BOOLEAN
    /\ pc = "test"
    /\ NoLifecycle
    /\ NoLog
    /\ NoArtifacts
    /\ NoUtilities
    /\ InitRun

\* the inputs of the lifecycle entry points other than the revision
NoLifecycleInputs ==
    /\ opFails = {}
    /\ env = ValidEnv
    /\ cleanupFails = FALSE
    /\ priorFiles = FALSE
    /\ escapeAt = NoPhase
    /\ validator = "none"

InitPerformance ==
    /\ scenario = "performance"
    /\ variant \in {1, 2}
    /\ \/ logExists = TRUE /\ log \in Logs
       \/ logExists = FALSE /\ log = <<>>
    /\ pc = "aggregate"
    /\ NoLifecycleInputs
    /\ NoProbe
    /\ NoArtifacts
    /\ NoUtilities
    /\ InitRun

InitArtifacts ==
    /\ scenario = "artifacts"
    /\ variant \in {1, 2}
    /\ sourceFiles \in Listings
    /\ copyFails \in SUBSET Range(sourceFiles)
    /\ unreadable \in SUBSET {"screenshots", "videos"}
    /\ staleRun \in BOOLEAN
    /\ source = IF staleRun THEN {<<"screenshots", FileStale>>} ELSE {}
    /\ target = IF staleRun THEN {<<"screenshots", FileStale>>} ELSE {}
    /\ pc = "clean"
    /\ NoLifecycleInputs
    /\ NoProbe
    /\ NoUtilities
    /\ logExists = TRUE
    /\ log = <<>>
    /\ InitRun

InitComponents == InitProbe \/ InitPerformance \/ InitArtifacts

\* the lifecycle entry points and the components are not in use
NoRun ==
    /\ NoLifecycle
    /\ NoProbe
    /\ NoLog
    /\ NoArtifacts
    /\ InitRun

InitRetry ==
    /\ scenario = "retry"
    /\ maxRetries \in 1..MaxRetries
    /\ baseDelay \in BaseDelays
    /\ fnOutcomes \in [1..maxRetries -> FnOutcomes]
    /\ attempt = 1
    /\ invocations = <<>>
    /\ waits = <<>>
    /\ lastError = NoRejection
    /\ rejection = NoRejection
    /\ pc = "attempt"
    /\ NoConfig
    /\ NoApi
    /\ calls = <<>>
    /\ NoRun

\* the instance as its constructor leaves it: configuration loaded and
\* validated, no overrides
InitConfig ==
    /\ scenario = "config"
    /\ config \in {ValidEnv, [ValidEnv EXCEPT !.WORKERS = Num(4)]}
    /\ environmentOverrides = NoOverrides
    /\ heldBefore = config
    /\ calls = <<>>
    /\ rejection = NoRejection
    /\ pc = "idle"
    /\ NoRetry
    /\ NoApi
    /\ NoRun

\* the instance as its constructor leaves it: `context = null`
InitApi ==
    /\ scenario = "api"
    /\ context = "null"
    /\ sent = 0
    /\ calls = <<>>
    /\ rejection = NoRejection
    /\ pc = "idle"
    /\ NoRetry
    /\ NoConfig
    /\ NoRun

InitUtilities == InitRetry \/ InitConfig \/ InitApi

Init ==
    InitSetup \/ InitTeardown \/ InitValidate \/ InitComponents \/ InitUtilities

InitEscape ==
    \/ InitSetup
    \/ InitTeardownEscape
    \/ InitValidate
    \/ InitComponents
    \/ InitUtilities

Next ==
    \/ SetupStartPhase
    \/ SetupSettlePhase
    \/ SetupComplete
    \/ SetupCatch
    \/ EmergencyCleanupSettle
    \/ SetupRethrow
    \/ TeardownStartPhase
    \/ TeardownSettlePhase
    \/ TeardownComplete
    \/ Validate
    \/ ProbeTest
    \/ ProbeRequest
    \/ ProbeSleep
    \/ GeneratePerformanceSummary
    \/ CleanPreviousArtifacts
    \/ RunTests
    \/ OrganizeStart
    \/ OrganizeCopy
    \/ OrganizeFinish
    \/ CopyImportantLogs
    \/ RetryAttempt
    \/ RetryWait
    \/ RetryThrow
    \/ ConfigGet
    \/ ConfigSet
    \/ ConfigClearOverrides
    \/ LoadConfigFromFile
    \/ ApiInit
    \/ ApiRequest
    \/ ApiDispose

Spec == Init /\ [][Next]_vars

\* the same program, with teardown phases that may raise past their handler
\* The continuations of waitForEndpoint are resumed by the event loop: the
\* awaited request settles and the interval timer fires, after which the
\* function runs on to its next await.
SpecLive ==
    /\ Init
    /\ [][Next]_vars
    /\ WF_vars(ProbeTest)
    /\ WF_vars(ProbeRequest)
    /\ WF_vars(ProbeSleep)

SpecEscape == InitEscape /\ [][Next]_vars

TypeOK ==
    /\ scenario \in {"setup", "teardown", "validate", "probe", "performance",
                   "artifacts", "retry", "config",
                   "api"}
    /\ pc \in {"run", "catch", "cleanup", "rethrow", "validate", "done",
              "test", "request", "sleep", "aggregate", "organize", "copy",
              "clean", "tests", "logs", "attempt", "wait", "throw",
              "idle"}
    /\ outcome \in {"pending", "returned", "threw"}
    /\ overallStatus \in {"none", "Succeeded", "Failed"}
    /\ cleanupDone <= cleanupCalls

(***************************************************************************)
(* Properties                                                              *)
(***************************************************************************)
IsPrefix(s, t) == Len(s) <= Len(t) /\ \A i \in 1..Len(s) : s[i] = t[i]

IndexOf(s, x) == CHOOSE i \in 1..Len(s) : s[i] = x

Registered ==
    IF scenario = "setup" THEN SetupPhases(variant)
    ELSE IF scenario = "teardown" THEN TeardownPhases(variant)
    ELSE <<>>

FailedEntries == {i \in 1..Len(ledger) : ledger[i].status = "Failed"}

\* C1: in a setup run, once the phase at position i has thrown, no phase
\* registered after position i is started: the throwing phase stays the last
\* phase of the run.
C1_FailFastStop ==
    scenario = "setup" =>
        \A i \in FailedEntries :
            /\ Len(started) = i
            /\ started[i] = ledger[i].name
            /\ running = {}

\* [A(ok), B(ok), C(throws), D..]: the run ended having started A, B, C only
C1_Witness ==
    /\ scenario = "setup"
    /\ pc = "done"
    /\ caught = "setupBrowsers"
    /\ started = <<"createDirectories", "validateEnvironment", "setupBrowsers">>

\* C2: when a setup phase throws, emergencyCleanup is invoked exactly once
\* and has returned before globalSetup rejects; the caller receives the
\* error of the phase that threw, also when an operation inside
\* emergencyCleanup failed; a run in which every phase returns never
\* invokes emergencyCleanup.
C2_EmergencyCleanupOnce ==
    scenario = "setup" =>
        /\ cleanupCalls <= 1
        /\ (FailedEntries = {} => cleanupCalls = 0)
        /\ (outcome = "returned" => cleanupCalls = 0 /\ FailedEntries = {})
        /\ (outcome = "threw" =>
               /\ cleanupCalls = 1
               /\ cleanupDone = 1
               /\ FailedEntries = {Len(ledger)}
               /\ thrown = ledger[Len(ledger)].name)
        /\ (pc = "done" /\ FailedEntries # {} => outcome = "threw")

C2_Witness ==
    /\ scenario = "setup"
    /\ outcome = "threw"
    /\ cleanupFails
    /\ thrown = "verifyTestSiteAvailability"
    /\ cleanupDone = 1

\* C3: in a teardown run a failure inside a phase does not keep any later
\* phase from running: whichever subset of phases fails, the finished run
\* has executed every registered teardown phase, in order.
C3_FailSoftContinuation ==
    scenario = "teardown" /\ pc = "done" =>
        /\ started = TeardownPhases(variant)
        /\ finished = Range(TeardownPhases(variant))

\* [.., B(fails), C(ok), ..]: C ran after B had failed
C3_Witness ==
    /\ scenario = "teardown"
    /\ pc = "done"
    /\ \E i \in FailedEntries :
         /\ i < Len(ledger)
         /\ ledger[i + 1].status = "Succeeded"
         /\ ledger[i + 1].name \in finished

\* C4: globalTeardown never rejects: whatever phases fail, also when a phase
\* raises past its own handler and an operation inside basicCleanup fails,
\* the invocation ends by returning.
C4_TeardownNeverThrows ==
    scenario = "teardown" =>
        /\ outcome # "threw"
        /\ thrown = NoError
        /\ (pc = "done" => outcome = "returned")

C4_Witness ==
    /\ scenario = "teardown"
    /\ pc = "done"
    /\ escapeAt # NoPhase
    /\ caught = escapeAt
    /\ cleanupFails
    /\ cleanupCalls = 1
    /\ opFails # {}
    /\ outcome = "returned"

C6_OverallStatusDerived ==
    scenario \in {"setup", "teardown"} /\ pc = "done" =>
        /\ (scenario = "setup" /\ FailedEntries # {} => overallStatus = "Failed")
        /\ (scenario = "teardown" /\ FailedEntries # {} => overallStatus # "Succeeded")
        /\ (overallStatus = "Succeeded" => FailedEntries = {})

\* C7: phases run strictly one after the other, without retries: at most
\* one phase is in progress, it is the phase started last, every phase
\* started before it has settled, no phase is started twice and the phases
\* started are a prefix of the registered order (setup: createDirectories,
\* validateEnvironment, verifyTestSiteAvailability, cleanPreviousArtifacts,
\* setupPerformanceMonitoring in this relative order).
C7_StrictSequencing ==
    scenario \in {"setup", "teardown"} =>
        /\ Cardinality(running) <= 1
        /\ IsPrefix(started, Registered)
        /\ \A i, j \in 1..Len(started) : started[i] = started[j] => i = j
        /\ \A i \in 1..Len(started) : started[i] \in running => i = Len(started)
        /\ Len(ledger) = Len(started) - Cardinality(running)
        /\ \A i \in 1..Len(ledger) : ledger[i].name = started[i]
        /\ (scenario = "setup" /\ "setupPerformanceMonitoring" \in Range(started) =>
               /\ IndexOf(started, "createDirectories")
                     < IndexOf(started, "validateEnvironment")
               /\ IndexOf(started, "validateEnvironment")
                     < IndexOf(started, "verifyTestSiteAvailability")
               /\ IndexOf(started, "verifyTestSiteAvailability")
                     < IndexOf(started, "cleanPreviousArtifacts")
               /\ IndexOf(started, "cleanPreviousArtifacts")
                     < IndexOf(started, "setupPerformanceMonitoring"))

C7_Witness ==
    /\ scenario = "setup"
    /\ variant = 1
    /\ Len(started) = 7
    /\ running = {"setupPerformanceMonitoring"}
    /\ Len(ledger) = 6

\* C8 (as claimed): every setup phase is fail-fast: an error inside any
\* phase that ran, createDirectories and cleanPreviousArtifacts included,
\* makes the run abort at that phase.
C8_EverySetupPhaseFailFast ==
    scenario = "setup" /\ pc = "done" =>
        \A p \in Range(started) :
            setupPhaseFails(p, opFails, env, variant) =>
                outcome = "threw" /\ thrown = p

\* the operations the phases treat as best effort
BestEffortOps ==
    {<<"createDirectories", "mkdir">>,
     <<"cleanPreviousArtifacts", "readdir">>,
     <<"cleanPreviousArtifacts", "unlink">>,
     <<"verifyTestSiteAvailability", "apiCheck">>,
     <<"setupAuthentication", "waitForURL">>}

\* C8 (amended): an error inside a setup phase makes that phase fail and
\* aborts the setup run at that phase, unless it is the error of a
\* best-effort operation: an mkdir of createDirectories, a readdir or unlink
\* of cleanPreviousArtifacts, an endpoint request of
\* verifyTestSiteAvailability (second revision) or the dashboard-URL wait of
\* setupAuthentication.  A phase in which only such operations fail returns
\* normally and the run goes on with the next phase.
C8_FailFastExceptBestEffort ==
    scenario = "setup" /\ pc = "done" =>
        \A p \in Range(started) :
            setupPhaseFails(p, opFails, env, variant) =>
                IF p # "validateEnvironment" /\ failingOps(p, opFails) \subseteq BestEffortOps
                THEN /\ p \in finished
                     /\ Len(started) > IndexOf(started, p)
                     /\ ledger[IndexOf(started, p)].status = "Succeeded"
                ELSE /\ outcome = "threw"
                     /\ thrown = p
                     /\ started[Len(started)] = p

\* directory creation and artifact cleanup both hit errors, the run completes
C8_Witness ==
    /\ scenario = "setup"
    /\ pc = "done"
    /\ opFails = {<<"createDirectories", "mkdir">>,
                  <<"cleanPreviousArtifacts", "unlink">>}
    /\ outcome = "returned"
    /\ Len(started) = Len(Registered)

\* C9: in every teardown run generateFinalSummary is executed, and it is
\* started only after every other teardown phase has finished, also when
\* earlier phases failed.
C9_FinalSummaryAlwaysLast ==
    scenario = "teardown" =>
        /\ (pc = "done" => "generateFinalSummary" \in finished)
        /\ ("generateFinalSummary" \in Range(started) =>
               Range(TeardownPhases(variant)) \ {"generateFinalSummary"} \subseteq finished)

C9_Witness ==
    /\ scenario = "teardown"
    /\ pc = "done"
    /\ opFails = TeardownOps(variant) \ {<<"generateFinalSummary", "body">>}
    /\ "generateFinalSummary" \in finished
    /\ ledger[Len(ledger)] = [name |-> "generateFinalSummary", status |-> "Succeeded"]

\* the violations a configuration contains
MissingKeys(c) == {k \in Range(RequiredKeys) : c[k] = ""}
MalformedUrls(c) == {k \in Range(UrlKeys) : c[k] # "" /\ ~isValidUrl(c[k])}
BelowMinimum(c) ==
    {i \in 1..Len(NumericVars) :
        c[NumericVars[i].name].kind = "num" /\ c[NumericVars[i].name].n < NumericVars[i].min}

\* the numeric settings for which the routine declares a minimum
DeclaredNumeric ==
    IF validator = "validateConfiguration"
    THEN {"TIMEOUT", "WORKERS", "VIEWPORT_WIDTH", "VIEWPORT_HEIGHT"}
    ELSE IF variant = 1
         THEN {NumericVars[i].name : i \in 1..Len(NumericVars)}
         ELSE {}

Reported(kind, key) ==
    \E i \in 1..Len(errors) : errors[i].kind = kind /\ key \in Range(errors[i].keys)

\* C10 (as claimed): validation collects all violations: a configuration
\* missing k required keys yields exactly k distinct missing-key messages,
\* and every malformed URL and every below-minimum number of the same
\* configuration is reported in the same result.
C10_CollectsAllViolations ==
    scenario = "validate" /\ pc = "done" =>
        LET missingMsgs == {i \in 1..Len(errors) : errors[i].kind = "missing"}
        IN  /\ Cardinality(missingMsgs) = Cardinality(MissingKeys(env))
            /\ Cardinality({errors[i] : i \in missingMsgs}) = Cardinality(MissingKeys(env))
            /\ \A k \in MalformedUrls(env) : Reported("url", k)
            /\ \A i \in BelowMinimum(env) :
                   NumericVars[i].name \in DeclaredNumeric =>
                       Reported("numeric", NumericVars[i].name)

\* a configuration in which at most the numeric setting `name` is in violation
OnlySettingVaries(c, name) == [c EXCEPT ![name] = ValidEnv[name]] = ValidEnv

\* C11 (as claimed): for each numeric setting with a declared minimum m,
\* validation of a configuration that is otherwise valid produces exactly one
\* violation message when the value of the setting is below m (0 and negative
\* values included) and no message when the value is at least m.
C11_NumericMinimum ==
    scenario = "validate" /\ pc = "done" =>
        \A i \in 1..Len(NumericVars) :
            LET name == NumericVars[i].name
                min == NumericVars[i].min
            IN  /\ name \in DeclaredNumeric
                /\ OnlySettingVaries(env, name)
                /\ env[name].kind = "num"
                => Len(errors) = (IF env[name].n < min THEN 1 ELSE 0)

\* the polls whose answer is a response with status below 500
AvailablePolls == {i \in 1..Len(polls) : polls[i].kind = "status" /\ polls[i].status < 500}

\* C12: waitForEndpoint returns true at the first poll whose response status
\* is below 500 (4xx included) and issues no further poll after it; it
\* returns true only after such a poll, never after a status of 500 or more.
C12_AvailableBelow500 ==
    scenario = "probe" =>
        /\ \A i \in AvailablePolls :
               i = Len(polls) /\ pc = "done" /\ result = "true"
        /\ (result = "true" => Len(polls) \in AvailablePolls)

\* a 500, a transport failure and a 503 are polled, then a 404 ends the wait
C12_Witness ==
    /\ scenario = "probe"
    /\ pc = "done"
    /\ result = "true"
    /\ polls = <<Status(500), RequestFailed, Status(503), Status(404)>>

\* C13: waitForEndpoint never throws: a poll that raises (transport failure
\* or missing request context) is followed by the pause and the next loop
\* test like any unavailable answer, and a call that ends without an
\* available response ends only after the timeout has elapsed, returning
\* false.
C13_ProbeNeverThrows ==
    scenario = "probe" =>
        /\ outcome # "threw"
        /\ (pc = "done" => outcome = "returned" /\ result \in {"true", "false"})
        /\ (pc = "done" /\ AvailablePolls = {} =>
               result = "false" /\ ~withinTimeout(now, probeTimeout))
        /\ (pc # "done" => result = "none")

\* every poll raised, polling went on until the timeout, the result is false
C13_Witness ==
    /\ scenario = "probe"
    /\ pc = "done"
    /\ result = "false"
    /\ Len(polls) >= 3
    /\ \A i \in 1..Len(polls) : getRaises(polls[i])
    /\ apiReady

\* a call with timeout 200, interval 50 and a check that always answers 503
Always503Run ==
    /\ scenario = "probe"
    /\ pc = "done"
    /\ probeTimeout = 200
    /\ probeInterval = 50
    /\ \A i \in 1..Len(polls) : polls[i] = Status(503)

\* C14 (as claimed): with a check that always answers 503, timeout 200 ms
\* and interval 50 ms, waitForEndpoint returns false after at least 3 and at
\* most 5 polls.
C14_PollCountBounds ==
    Always503Run => result = "false" /\ Len(polls) >= 3 /\ Len(polls) <= 5

\* C14 (amended): the same, for a check whose answer arrives early enough
\* for a poll and its pause to take less than two intervals (latency plus
\* timer overshoot below 50 ms); a slower check is polled fewer times.
C14_PollCountBoundsFastCheck ==
    Always503Run /\ probeLatency + MaxOvershoot < probeInterval =>
        result = "false" /\ Len(polls) >= 3 /\ Len(polls) <= 5

\* a check answering 503 after 40 ms is polled three times
C14_Witness ==
    /\ Always503Run
    /\ probeLatency = 40
    /\ Len(polls) = 3
    /\ result = "false"

\* a finished call of generatePerformanceSummary
PerformanceDone == scenario = "performance" /\ pc = "done"

Categories == {"pageLoad", "apiResponse"}

\* the categories a record is counted in, and its duration there
RecordCategories(d) ==
    IF variant = 1 THEN {c \in Categories : d[c].kind # "unset"} ELSE {d.type}
RecordDuration(d, c) == IF variant = 1 THEN d[c] ELSE d.duration

\* the records of category c, in input order
RecordsOf(data, c) == SelectSeq(data, LAMBDA d : c \in RecordCategories(d))

ReportedAverage(c) ==
    IF c = "pageLoad" THEN result.averagePageLoad ELSE result.averageApiResponse
ReportedMaximum(c) ==
    IF c = "pageLoad" THEN result.slowestPageLoad ELSE result.slowestApiResponse
ThresholdOf(c) == IF c = "pageLoad" THEN PageLoadThreshold ELSE ApiResponseThreshold

IsZero(x) == x.kind = "num" /\ x.n = 0

\* C15 (as claimed): aggregation over an empty set of records yields for
\* every category count 0, average 0, maximum 0 (never -Infinity) and an
\* empty violation list.
C15_EmptyAggregation ==
    PerformanceDone /\ result.data = <<>> =>
        /\ result.total = 0
        /\ result.violations = <<>>
        /\ \A c \in Categories : IsZero(ReportedAverage(c)) /\ IsZero(ReportedMaximum(c))

\* every record of the run carries a numeric duration
NumericDurations ==
    \A i \in 1..Len(result.data) :
        \A c \in RecordCategories(result.data[i]) :
            RecordDuration(result.data[i], c).kind = "num"

\* C16: for each category the reported average is the arithmetic mean of the
\* durations of exactly the records of that category (0 when it has none),
\* and the reported maximum of a category that has records is their largest
\* duration.
C16_MeanAndMaximumPerCategory ==
    PerformanceDone /\ NumericDurations =>
        \A c \in Categories :
            LET own == RecordsOf(result.data, c)
                durations == {RecordDuration(own[i], c).n : i \in 1..Len(own)}
                total == SumSeq([i \in 1..Len(own) |-> RecordDuration(own[i], c)])
                avg == ReportedAverage(c)
                max == ReportedMaximum(c)
            IN  /\ avg.kind = "num"
                /\ avg.n * (IF own = <<>> THEN 1 ELSE Len(own)) = total * avg.den
                /\ own # <<>> =>
                       /\ max.kind = "num" /\ max.den = 1
                       /\ max.n \in durations
                       /\ \A x \in durations : x <= max.n

\* page loads of 100, 200 and 300 ms: average 200, maximum 300
C16_Witness ==
    /\ PerformanceDone
    /\ logExists
    /\ log = <<PerfLine(PageNavigation, DurationText(100)),
               PerfLine(ApiLabel, DurationText(300)),
               PerfLine(PageNavigation, DurationText(200))>>
    /\ result.averagePageLoad = Quotient(300, 2)
    /\ result.slowestPageLoad = Quotient(200, 1)
    /\ result.averageApiResponse = Quotient(300, 1)

\* C17: the violation list contains exactly the records whose duration is
\* strictly greater than the threshold of their own category, in the order
\* in which the records appear in the log.
C17_ViolationsStrictAndOrdered ==
    PerformanceDone =>
        LET data == result.data
            viol == result.violations
            Over(d) == \E c \in RecordCategories(d) :
                           /\ RecordDuration(d, c).kind = "num"
                           /\ RecordDuration(d, c).n > ThresholdOf(c)
        IN  /\ \A i \in 1..Len(viol) : viol[i] \in Range(data) /\ Over(viol[i])
            /\ \A i \in 1..Len(data) : Over(data[i]) => data[i] \in Range(viol)
            /\ \A i, j \in 1..Len(viol) :
                   i < j => viol[i].timestamp < viol[j].timestamp

\* an API response equal to its threshold between two violations
C17_Witness ==
    /\ PerformanceDone
    /\ logExists
    /\ log = <<PerfLine(PageNavigation, DurationText(300)),
               PerfLine(ApiLabel, DurationText(100)),
               PerfLine(ApiLabel, DurationText(200))>>
    /\ Len(result.violations) = 2
    /\ result.violations[1].timestamp = 1
    /\ result.violations[2].timestamp = 3

\* C18 (as claimed): every parsed record is assigned to exactly one
\* category: ApiResponse if its label contains "API" (case-sensitive),
\* PageLoad otherwise.
C18_ExactlyOneCategory ==
    PerformanceDone =>
        \A i \in 1..Len(result.data) :
            LET d == result.data[i]
            IN  RecordCategories(d) =
                    IF includes(d.testName, <<"A", "P", "I">>)
                    THEN {"apiResponse"} ELSE {"pageLoad"}

\* a line that has the shape of a performance entry
WellFormed(line) ==
    /\ line.kind = "perf"
    /\ line.action # NoLabel
    /\ line.duration.present
    /\ line.duration.digits # NoDigits

\* C19 (as claimed): a line that cannot be parsed as a performance record
\* is skipped, and the records obtained are those of the remaining lines,
\* wherever the malformed line occurs.
C19_MalformedLinesSkipped ==
    PerformanceDone =>
        /\ {result.data[i].timestamp : i \in 1..Len(result.data)} =
               {i \in 1..Len(readLog(logExists, log)) : WellFormed(log[i])}
        /\ \A i, j \in 1..Len(result.data) :
               i < j => result.data[i].timestamp < result.data[j].timestamp

\* the screenshots of the listing that organizeArtifacts selects
MatchedFiles ==
    {f \in Range(sourceFiles) :
        "screenshots" \notin unreadable /\ matchesPattern(f, "screenshots", variant)}

\* C20 (as claimed): a copy failure for one matched file does not abort the
\* batch: every other matched file, those listed after the failing one
\* included, is copied into the target directory.
C20_CopyFailureSkipped ==
    scenario = "artifacts" /\ pc = "done" =>
        \A f \in MatchedFiles : f \notin copyFails => <<"screenshots", f>> \in target

\* the files of kind `k` in the artifact tree
TargetOf(k) == {e \in target : e[1] = k}

\* the artifact tree before the run
StaleTarget == IF staleRun THEN {<<"screenshots", FileStale>>} ELSE {}

\* the source directories as the test run leaves them
SourceAfterTests ==
    {<<"screenshots", f>> : f \in Range(sourceFiles)}
        \cup {<<"videos", FileVideo>>, <<"traces", FileTrace>>}

\* both invocations of processTestArtifacts have organized every kind
OrganizedTwice ==
    organized = Kinds \o <<"logs">> \o Kinds \o <<"logs">>

\* C21: organizing a kind whose source directory cannot be read behaves as
\* on an empty directory: processTestArtifacts returns without an error,
\* nothing is copied for that kind, and every kind, the unreadable one
\* included, is organized in turn, the readable ones receiving their copies
C21_UnreadableSourceAsEmpty ==
    scenario = "artifacts" /\ pc = "done" =>
        /\ outcome = "returned"
        /\ \A k \in unreadable : TargetOf(k) \subseteq StaleTarget
        /\ OrganizedTwice
        /\ "videos" \notin unreadable => <<"videos", FileVideo>> \in target
        /\ <<"traces", FileTrace>> \in target
        /\ <<"logs", FileLog>> \in target

C21_Witness ==
    /\ scenario = "artifacts"
    /\ pc = "done"
    /\ unreadable = {"screenshots"}
    /\ FileA \in Range(sourceFiles)
    /\ FileA \notin copyFails
    /\ TargetOf("screenshots") = {}
    /\ <<"videos", FileVideo>> \in target

\* C22: after the cleanup phase of setup, a test run and the artifact phase
\* of teardown, the artifact tree holds only files that the run left in the
\* source directories and that match the pattern of their kind (and the
\* copied logs): nothing of an earlier run is left
C22_NoLeftOvers ==
    scenario = "artifacts" /\ pc = "done" =>
        \A e \in target :
            \/ e[1] = "logs"
            \/ e \in SourceAfterTests /\ matchesPattern(e[2], e[1], variant)

\* the name satisfies the pattern processTestArtifacts passes for the kind:
\* the glob `**/*.<ext>` in the first revision, the expression of the
\* second revision
satisfiesKindPattern(file, k, v) ==
    IF v = 1 THEN endsWith(file, <<".">> \o globExtension(k))
    ELSE matchesPattern(file, k, 2)

\* C30: organizing copies and never moves: from the first invocation on the
\* source directories stay as the test run left them, every file created in
\* the artifact tree has a name that satisfies the pattern of its kind, and
\* the second invocation leaves the tree as the first left it
C30_CopyOnlyMatchingIdempotent ==
    scenario = "artifacts" =>
        /\ pc \in {"organize", "copy", "logs", "done"} => source = SourceAfterTests
        /\ \A e \in target \ StaleTarget :
              e[1] = "logs" \/ satisfiesKindPattern(e[2], e[1], variant)
        /\ pc = "done" => target = firstTarget
\* retryWithBackoff has settled
RetryDone == scenario = "retry" /\ pc = "done"

\* the attempts whose invocation of fn resolves
Successes == {k \in 1..maxRetries : fnOutcomes[k].kind = "resolved"}

\* the first attempt that resolves, maxRetries when none does
LastAttempt ==
    IF Successes = {} THEN maxRetries
    ELSE CHOOSE k \in Successes : \A j \in Successes : k <= j

\* the delays baseDelay * 2^(k-1) after the failed attempts k = 1 .. m
ExpectedWaits(m) == [k \in 1..m |-> baseDelay * 2^(k - 1)]

\* fn is invoked at most maxRetries times, once per attempt up to the first
\* success; the delays after the failed attempts before the last one are
\* baseDelay * 2^(k-1) and no delay follows the last attempt
RetrySchedule ==
    /\ Len(invocations) <= maxRetries
    /\ invocations = [k \in 1..LastAttempt |-> k]
    /\ waits = ExpectedWaits(LastAttempt - 1)
    /\ Successes # {} =>
          outcome = "returned" /\ result = fnOutcomes[LastAttempt].value
    /\ Successes = {} => outcome = "threw"

\* C23 as stated: the schedule of attempts and delays, and after maxRetries
\* failures the promise is rejected with what the last attempt rejected with
C23_RetryThrowsLastRejection ==
    RetryDone =>
        /\ RetrySchedule
        /\ Successes = {} => rejection = fnOutcomes[maxRetries].error

\* C23: retryWithBackoff invokes fn at most maxRetries times, returns the
\* value of the first invocation that resolves without invoking fn again,
\* waits baseDelay * 2^(k-1) after the k-th failed attempt for k below
\* maxRetries and not after the last; after maxRetries failures it rejects
\* with the last attempt's Error, or with a new Error carrying the string of
\* the rejected value when that value is not an Error
C23_RetrySchedule ==
    RetryDone =>
        /\ RetrySchedule
        /\ Successes = {} =>
              LET e == fnOutcomes[maxRetries].error
              IN  IF e.isError THEN rejection = e
                  ELSE rejection = [isError |-> TRUE, message |-> e.message]

\* three failed attempts, the last rejecting with a value that is no Error
C23_Witness ==
    /\ RetryDone
    /\ maxRetries = 3
    /\ outcome = "threw"
    /\ waits = <<baseDelay, 2 * baseDelay>>
    /\ ~fnOutcomes[3].error.isError
    /\ rejection.isError
\* the pauses waitForEndpoint has completed
CompletedPauses ==
    IF pc = "sleep" \/ (pc = "done" /\ result = "true") THEN Len(polls) - 1
    ELSE Len(polls)

\* a poll is started only while the elapsed time is below the timeout, a
\* pause of at least the interval has followed every poll that did not end
\* the wait, and a timeout of 0 or less means no poll and the result false
C24_PollDiscipline ==
    scenario = "probe" =>
        /\ pc = "request" => now - StartTime < probeTimeout
        /\ now - StartTime >= CompletedPauses * probeInterval
        /\ probeTimeout <= 0 => polls = <<>> /\ pc \in {"test", "done"}
        /\ probeTimeout <= 0 /\ pc = "done" => result = "false"

\* C24: waitForEndpoint always terminates: every call reaches its return,
\* polls are started only while the elapsed time is below the timeout, each
\* poll that does not return true is followed by the interval delay, and
\* with a timeout of 0 or less no poll is made and the result is false
C24_ProbeTerminates ==
    /\ []C24_PollDiscipline
    /\ (scenario = "probe") ~> (pc = "done")

\* two polls of an unavailable endpoint, each followed by its pause, then
\* the loop test ends the wait
C24_Witness ==
    /\ scenario = "probe"
    /\ pc = "done"
    /\ probeTimeout = 100
    /\ probeInterval = 50
    /\ Len(polls) = 2
    /\ result = "false"
    /\ now - StartTime >= probeTimeout
\* C25: no browser launched by a setup phase is open once that phase has
\* ended, whether the phase returned or threw, and so none is open when
\* globalSetup returns or throws
C25_BrowsersClosed ==
    scenario = "setup" => openBrowsers = {}

\* C26: when globalSetup has returned, config/performance.json and
\* test-results/environment-info.json both exist; when it has thrown,
\* neither exists, whichever phase failed
C26_PersistedFiles ==
    scenario = "setup" /\ pc = "done" =>
        /\ outcome = "returned" => files = PartialFiles
        /\ outcome = "threw" => files = {}
\* the latest call on the utility object
LastCall == calls[Len(calls)]

\* C27: a call of loadConfigFromFile that throws (unreadable file, invalid
\* JSON, or a merged configuration that fails validation) leaves the held
\* configuration as it was before the call
C27_LoadAllOrNothing ==
    scenario = "config" /\ calls # <<>> =>
        (LastCall.op = "loadConfigFromFile" /\ outcome = "threw" =>
            getConfig = heldBefore)

\* the calls since the last clearOverrides that set key k
SetsSinceClear(k) ==
    {i \in 1..Len(calls) :
        /\ calls[i].op = "set"
        /\ calls[i].key = k
        /\ \A j \in i..Len(calls) : calls[j].op # "clearOverrides"}

\* the value of the most recent set(k, v) since the last clearOverrides,
\* the base value of k when there is none
ExpectedValue(k) ==
    IF SetsSinceClear(k) = {} THEN getConfig[k]
    ELSE LET last == CHOOSE i \in SetsSinceClear(k) :
                         \A j \in SetsSinceClear(k) : j <= i
         IN  calls[last].value

\* C28: after any sequence of calls, get(k) is the value of the most recent
\* set(k, v) since the last clearOverrides and otherwise the base value of
\* k, a call of get returns that value, and a call of set or clearOverrides
\* leaves the configuration returned by getConfig as it was
C28_OverridesShadowBase ==
    scenario = "config" =>
        /\ \A k \in ConfigKeys : get(k) = ExpectedValue(k)
        /\ calls # <<>> =>
              /\ LastCall.op = "get" => result = ExpectedValue(LastCall.key)
              /\ LastCall.op \in {"set", "clearOverrides"} =>
                    getConfig = heldBefore

\* TIMEOUT is set twice and then read: the second value is returned, the
\* base configuration still holds its own value
C28_Witness ==
    /\ scenario = "config"
    /\ Len(calls) = 3
    /\ calls[1] = Call("set", "TIMEOUT", Num(MinTimeout - 1))
    /\ calls[2] = Call("set", "TIMEOUT", Num(5 * MinTimeout))
    /\ calls[3] = Call("get", "TIMEOUT", Unset)
    /\ result = Num(5 * MinTimeout)
    /\ getConfig.TIMEOUT = Num(MinTimeout)
\* the lifecycle calls (init, dispose) made before call i
LifecycleBefore(i) == {j \in 1..(i - 1) : calls[j].op \in {"init", "dispose"}}

\* the most recent lifecycle call before call i was a successful init
InitWasLast(i) ==
    /\ LifecycleBefore(i) # {}
    /\ LET last == CHOOSE j \in LifecycleBefore(i) :
                       \A k \in LifecycleBefore(i) : k <= j
       IN  calls[last] = Call("init", "", "ok")

\* an init succeeded before call i and no dispose has completed since
ContextHeld(i) ==
    \E j \in 1..(i - 1) :
        /\ calls[j] = Call("init", "", "ok")
        /\ \A k \in (j + 1)..(i - 1) : calls[k] # Call("dispose", "", "ok")

Requests == {i \in 1..Len(calls) : calls[i].op = "request"}

\* a request that does not reach the transport is the latest call only if
\* it failed with the error of the missing context
RefusedWithMessage ==
    calls # <<>> /\ LastCall.op = "request" /\ LastCall.value = "not sent" =>
        outcome = "threw" /\ rejection = ErrorObject(NotInitializedMessage)

\* a dispose that follows a completed dispose returns without effect
DisposeIdempotent ==
    \A i \in 2..Len(calls) :
        calls[i].op = "dispose" /\ calls[i - 1] = Call("dispose", "", "ok") =>
            calls[i].value = "nothing"

====
